---------------------------- MODULE Spec2Model ----------------------------
(***************************************************************************)
(* Critical Path Method calculator (script.js): the graph held in `state`, *)
(* the form and button handlers that mutate it, computeCPM and the layout  *)
(* computed by drawGraph.                                                  *)
(*                                                                         *)
(* JavaScript values.  A string is a sequence of one-character strings, so *)
(* that trim() and Number() are computed and not assumed.  A Number is an  *)
(* IEEE binary floating point value; the model keeps the finite ones that  *)
(* are whole multiples of the quantum 2^-FractionBits and represents such  *)
(* a value by its count of quanta (an integer).  Sums and differences are  *)
(* rounded to MantissaBits significant bits, ties to even, as the machine  *)
(* does with 53 bits.                                                      *)
(***************************************************************************)
EXTENDS Integers, Sequences, FiniteSets, TLC

VARIABLES nodes, edges, results, svg, alerted

vars == <<nodes, edges, results, svg, alerted>>

---------------------------------------------------------------------------
(* Bounds of the model *)

\* most edges the edge form accepts before the model stops adding
MaxEdges == 3
\* most edges of a graph handed to one computation (SpecCPM, SpecLayout)
MaxCall == 3
\* binary digits kept after the point: the quantum is 2^-FractionBits
FractionBits == 4
\* significant binary digits of a Number (53 in the machine)
MantissaBits == 8

---------------------------------------------------------------------------
(* Numbers *)

\* 1.0 in quanta
One == 2 ^ FractionBits

\* the tolerance 1e-9 of the critical test, in quanta: with a quantum of
\* 2^-32, 1e-9 is 4.29 quanta, so |x| < 1e-9 iff |x| < 5 quanta
Tolerance == 5

Abs(x) == IF x < 0 THEN -x ELSE x

Max2(a, b) == IF a >= b THEN a ELSE b

Min2(a, b) == IF a <= b THEN a ELSE b

\* the power of two by which a magnitude m exceeds MantissaBits digits
RECURSIVE Ulp(_, _)
Ulp(m, step) == IF m < step * (2 ^ MantissaBits) THEN step ELSE Ulp(m, 2 * step)

\* round to nearest, ties to even
Fl(x) ==
    LET m    == Abs(x)
        step == Ulp(m, 1)
        q    == m \div step
        rem  == m - q * step
        r    == IF 2 * rem < step THEN q * step
                ELSE IF 2 * rem > step THEN (q + 1) * step
                ELSE IF q % 2 = 0 THEN q * step ELSE (q + 1) * step
    IN  IF x < 0 THEN -r ELSE r

\* a + b and a - b of two Numbers
Add(a, b) == Fl(a + b)

Sub(a, b) == Fl(a - b)

RECURSIVE MaxOf(_)
MaxOf(s) == IF Len(s) = 1 THEN s[1] ELSE Max2(s[1], MaxOf(Tail(s)))

---------------------------------------------------------------------------
(* Strings and conversions *)

JsStr(chars) == [t |-> "string", s |-> chars, n |-> 0]

JsNum(x) == [t |-> "number", s |-> <<>>, n |-> x]

JsNull == [t |-> "null", s |-> <<>>, n |-> 0]

IsSpace(c) == c = " "

RECURSIVE TrimStart(_)
TrimStart(s) ==
    IF s /= <<>> /\ IsSpace(s[1]) THEN TrimStart(Tail(s)) ELSE s

RECURSIVE TrimEnd(_)
TrimEnd(s) ==
    IF s /= <<>> /\ IsSpace(s[Len(s)]) THEN TrimEnd(SubSeq(s, 1, Len(s) - 1)) ELSE s

Trim(s) == TrimEnd(TrimStart(s))

\* name || "": null, the empty string and the number 0 are falsy
OrEmpty(v) ==
    IF v.t = "string" THEN v.s ELSE <<>>

\* String(name || "").trim()
normalizeName(name) == Trim(OrEmpty(name))

Digits == {"0", "1", "2", "3", "4", "5", "6", "7", "8", "9"}

DigitVal(c) ==
    CASE c = "0" -> 0 [] c = "1" -> 1 [] c = "2" -> 2 [] c = "3" -> 3
      [] c = "4" -> 4 [] c = "5" -> 5 [] c = "6" -> 6 [] c = "7" -> 7
      [] c = "8" -> 8 [] c = "9" -> 9

RECURSIVE DecimalValue(_, _)
DecimalValue(s, acc) ==
    IF s = <<>> THEN acc ELSE DecimalValue(Tail(s), 10 * acc + DigitVal(s[1]))

Finite(x) == [kind |-> "finite", v |-> x]

NaN == [kind |-> "nan", v |-> 0]

Infinite(sign) == [kind |-> "infinite", v |-> sign]

AllDigits(s) == s /= <<>> /\ \A i \in 1..Len(s) : s[i] \in Digits

InfinityLiteral == <<"I", "n", "f", "i", "n", "i", "t", "y">>

\* the unsigned part of a numeric string: whole decimal digits, or Infinity
UnsignedToNumber(s, sign) ==
    IF AllDigits(s) THEN Finite(sign * DecimalValue(s, 0) * One)
    ELSE IF s = InfinityLiteral THEN Infinite(sign)
    ELSE NaN

\* Number(string): white space is trimmed, the empty string is 0
StringToNumber(str) ==
    LET s == Trim(str)
    IN  IF s = <<>> THEN Finite(0)
        ELSE IF s[1] = "-" THEN UnsignedToNumber(Tail(s), -1)
        ELSE IF s[1] = "+" THEN UnsignedToNumber(Tail(s), 1)
        ELSE UnsignedToNumber(s, 1)

\* Number(weight)
ToNumber(v) ==
    IF v.t = "string" THEN StringToNumber(v.s)
    ELSE IF v.t = "number" THEN Finite(v.n)
    ELSE Finite(0)

IsFinite(w) == w.kind = "finite"

---------------------------------------------------------------------------
(* The graph: addNode, addEdge, clearAll *)

NoResults == [kind |-> "null"]

EmptySvg == [kind |-> "empty"]

Range(s) == {s[i] : i \in 1..Len(s)}

\* Set.prototype.add: insertion order is kept, a member is not added again
SetAdd(set, n) == IF n \in Range(set) THEN set ELSE Append(set, n)

\* state.nodes after addNode(name)
addNode(ns, name) ==
    LET n == normalizeName(name)
    IN  IF n = <<>> THEN ns ELSE SetAdd(ns, n)

\* whether addEdge(from, to, weight) returns before it changes anything
addEdgeRejects(from, to, weight) ==
    LET f == normalizeName(from)
        t == normalizeName(to)
        w == ToNumber(weight)
    IN  \/ f = <<>>
        \/ t = <<>>
        \/ ~IsFinite(w)
        \/ w.v < 0
        \/ f = t

\* [nodes, edges] after addEdge(from, to, weight)
addEdge(g, from, to, weight) ==
    LET f == normalizeName(from)
        t == normalizeName(to)
        w == ToNumber(weight)
    IN  IF addEdgeRejects(from, to, weight) THEN g
        ELSE [nodes |-> SetAdd(SetAdd(g.nodes, f), t),
              edges |-> Append(g.edges, [from |-> f, to |-> t, weight |-> w.v])]

---------------------------------------------------------------------------
(* computeCPM *)

CycleMessage == "cycle"

CycleError == [kind |-> "error", message |-> CycleMessage]

\* nameToIndex.get(name): the position in nodeList, 0 for undefined
nameToIndex(nodeList, name) ==
    IF \E i \in 1..Len(nodeList) : nodeList[i] = name
    THEN CHOOSE i \in 1..Len(nodeList) : nodeList[i] = name
    ELSE 0

Ids(m) == [i \in 1..m |-> i]

\* adj[u]: the indices of the edges leaving u, in edge order; an edge with an
\* unknown endpoint is skipped
adjOf(nodeList, es) ==
    [u \in 1..Len(nodeList) |->
        SelectSeq(Ids(Len(es)), LAMBDA ei :
            /\ nameToIndex(nodeList, es[ei].from) = u
            /\ nameToIndex(nodeList, es[ei].to) /= 0)]

\* indeg[v]: the number of edges entering v
indegOf(nodeList, es) ==
    [v \in 1..Len(nodeList) |->
        Cardinality({ei \in 1..Len(es) :
            /\ nameToIndex(nodeList, es[ei].from) /= 0
            /\ nameToIndex(nodeList, es[ei].to) = v})]

\* the queue of the nodes whose count is 0, in index order
ZeroQueue(indeg) == SelectSeq(Ids(Len(indeg)), LAMBDA i : indeg[i] = 0)

\* adj[u].forEach of Kahn's loop: each edge takes one from its target's count
\* and queues the target when the count reaches 0
RECURSIVE KahnVisit(_, _, _, _, _)
KahnVisit(eis, queue, indeg, nodeList, es) ==
    IF eis = <<>> THEN [queue |-> queue, indeg |-> indeg]
    ELSE LET v  == nameToIndex(nodeList, es[Head(eis)].to)
             d  == indeg[v] - 1
             q2 == IF d = 0 THEN Append(queue, v) ELSE queue
         IN  KahnVisit(Tail(eis), q2, [indeg EXCEPT ![v] = d], nodeList, es)

RECURSIVE KahnLoop(_, _, _, _, _, _)
KahnLoop(queue, indeg, topo, adj, nodeList, es) ==
    IF queue = <<>> THEN topo
    ELSE LET u == Head(queue)
             r == KahnVisit(adj[u], Tail(queue), indeg, nodeList, es)
         IN  KahnLoop(r.queue, r.indeg, Append(topo, u), adj, nodeList, es)

\* Kahn topological sort
topoOf(nodeList, es) ==
    LET indeg == indegOf(nodeList, es)
    IN  KahnLoop(ZeroQueue(indeg), indeg, <<>>, adjOf(nodeList, es), nodeList, es)

\* ForwardEdges without Math.max: the edge visited last sets E[v]
RECURSIVE ForwardEdgesLastWins(_, _, _, _, _)
ForwardEdgesLastWins(E, eis, u, nodeList, es) ==
    IF eis = <<>> THEN E
    ELSE LET e == es[Head(eis)]
             v == nameToIndex(nodeList, e.to)
         IN  ForwardEdgesLastWins([E EXCEPT ![v] = Add(E[u], e.weight)],
                                  Tail(eis), u, nodeList, es)

\* E[v] = Math.max(E[v], E[u] + e.weight) over the edges leaving u
RECURSIVE ForwardEdges(_, _, _, _, _)
ForwardEdges(E, eis, u, nodeList, es) ==
    IF eis = <<>> THEN E
    ELSE LET e == es[Head(eis)]
             v == nameToIndex(nodeList, e.to)
         IN  ForwardEdges([E EXCEPT ![v] = Max2(E[v], Add(E[u], e.weight))],
                          Tail(eis), u, nodeList, es)

RECURSIVE ForwardPass(_, _, _, _, _)
ForwardPass(E, topo, adj, nodeList, es) ==
    IF topo = <<>> THEN E
    ELSE ForwardPass(ForwardEdges(E, adj[Head(topo)], Head(topo), nodeList, es),
                     Tail(topo), adj, nodeList, es)

\* earliest times of the nodes
earliestOf(nodeList, es, topo) ==
    ForwardPass([i \in 1..Len(nodeList) |-> 0], topo, adjOf(nodeList, es), nodeList, es)

\* minVal over the outgoing edges: Math.min(minVal, L[toIdx] - w) from Infinity
RECURSIVE MinLatest(_, _, _, _)
MinLatest(L, eis, nodeList, es) ==
    LET e    == es[Head(eis)]
        here == Sub(L[nameToIndex(nodeList, e.to)], e.weight)
    IN  IF Len(eis) = 1 THEN here
        ELSE Min2(here, MinLatest(L, Tail(eis), nodeList, es))

\* for (k = topo.length - 1; k >= 0; k--)
RECURSIVE BackwardPass(_, _, _, _, _, _)
BackwardPass(L, k, topo, adj, nodeList, es) ==
    IF k = 0 THEN L
    ELSE LET v        == topo[k]
             outgoing == adj[v]
             L2       == IF Len(outgoing) > 0
                         THEN [L EXCEPT ![v] = Min2(L[v], MinLatest(L, outgoing, nodeList, es))]
                         ELSE L
         IN  BackwardPass(L2, k - 1, topo, adj, nodeList, es)

\* latest times of the nodes
latestOf(nodeList, es, topo, projectDuration) ==
    BackwardPass([i \in 1..Len(nodeList) |-> projectDuration], Len(topo), topo,
                 adjOf(nodeList, es), nodeList, es)

\* isCritical with the comparison turned round
isCriticalInverted(slack) == Abs(slack) >= Tolerance

\* Math.abs(slack) < 1e-9
isCritical(slack) == Abs(slack) < Tolerance

\* edgeResult with ES read at the target of the edge
edgeResultFromTarget(e, E, L, nodeList) ==
    LET v     == nameToIndex(nodeList, e.to)
        ES    == E[v]
        EF    == Add(ES, e.weight)
        LF    == L[v]
        LS    == Sub(LF, e.weight)
        slack == Sub(LS, ES)
    IN  [from |-> e.from, to |-> e.to, weight |-> e.weight,
         ES |-> ES, EF |-> EF, LS |-> LS, LF |-> LF,
         slack |-> slack, critical |-> isCritical(slack)]

\* ES, EF, LS, LF and slack of one edge
edgeResult(e, E, L, nodeList) ==
    LET u     == nameToIndex(nodeList, e.from)
        v     == nameToIndex(nodeList, e.to)
        ES    == E[u]
        EF    == Add(ES, e.weight)
        LF    == L[v]
        LS    == Sub(LF, e.weight)
        slack == Sub(LS, ES)
    IN  [from |-> e.from, to |-> e.to, weight |-> e.weight,
         ES |-> ES, EF |-> EF, LS |-> LS, LF |-> LF,
         slack |-> slack, critical |-> isCritical(slack)]

\* critAdj[u]: the targets of the critical edges leaving u, in edge order
critAdjOf(nodeList, edgeResults) ==
    [u \in 1..Len(nodeList) |->
        LET eis == SelectSeq(Ids(Len(edgeResults)), LAMBDA ei :
                       /\ edgeResults[ei].critical
                       /\ nameToIndex(nodeList, edgeResults[ei].from) = u)
        IN  [k \in 1..Len(eis) |-> nameToIndex(nodeList, edgeResults[eis[k]].to)]]

\* the nodes of topo that no edge enters
startsOf(topo, nodeList, es) ==
    SelectSeq(topo, LAMBDA i :
        Cardinality({ei \in 1..Len(es) : nameToIndex(nodeList, es[ei].to) = i}) = 0)

\* the nodes of topo whose earliest time is the project duration
endsOf(topo, E, projectDuration) ==
    SelectSeq(topo, LAMBDA i : E[i] = projectDuration)

\* dfs(u): the paths pushed to criticalPaths, in order; `rest` holds the
\* targets of the enclosing for-loop still to visit
RECURSIVE dfs(_, _, _, _, _)
RECURSIVE dfsEach(_, _, _, _, _)
dfs(u, path, endSet, critAdj, nodeList) ==
    LET here == Append(path, u)
    IN  IF u \in endSet
        THEN << [k \in 1..Len(here) |-> nodeList[here[k]]] >>
        ELSE dfsEach(critAdj[u], here, endSet, critAdj, nodeList)

dfsEach(targets, path, endSet, critAdj, nodeList) ==
    IF targets = <<>> THEN <<>>
    ELSE dfs(Head(targets), path, endSet, critAdj, nodeList)
         \o dfsEach(Tail(targets), path, endSet, critAdj, nodeList)

\* starts.forEach(s => dfs(s))
RECURSIVE criticalPathsOf(_, _, _, _)
criticalPathsOf(starts, endSet, critAdj, nodeList) ==
    IF starts = <<>> THEN <<>>
    ELSE dfs(Head(starts), <<>>, endSet, critAdj, nodeList)
         \o criticalPathsOf(Tail(starts), endSet, critAdj, nodeList)

\* computeCPM(nodes, edges): the result record, or the error thrown
computeCPM(nodeList, es) ==
    LET topo == topoOf(nodeList, es)
    IN  IF Len(topo) /= Len(nodeList) THEN CycleError
        ELSE
          LET E  == earliestOf(nodeList, es, topo)
              projectDuration == MaxOf(E)
              L  == latestOf(nodeList, es, topo, projectDuration)
              edgeResults == [ei \in 1..Len(es) |-> edgeResult(es[ei], E, L, nodeList)]
              critAdj == critAdjOf(nodeList, edgeResults)
              starts  == startsOf(topo, nodeList, es)
              ends    == endsOf(topo, E, projectDuration)
          IN  [kind |-> "results",
               nodeNames |-> nodeList,
               E |-> E,
               L |-> L,
               edges |-> edgeResults,
               duration |-> projectDuration,
               criticalPaths |-> criticalPathsOf(starts, Range(ends), critAdj, nodeList)]

---------------------------------------------------------------------------
(* drawGraph: layers, order within the layers, offsets of the edges *)

\* outAdj[u]: the targets of the edges leaving u, in edge order
outAdjOf(nodeNames, ers) ==
    [u \in 1..Len(nodeNames) |->
        LET eis == SelectSeq(Ids(Len(ers)), LAMBDA ei :
                       /\ nameToIndex(nodeNames, ers[ei].from) = u
                       /\ nameToIndex(nodeNames, ers[ei].to) /= 0)
        IN  [k \in 1..Len(eis) |-> nameToIndex(nodeNames, ers[eis[k]].to)]]

\* inAdj[v]: the sources of the edges entering v, in edge order
inAdjOf(nodeNames, ers) ==
    [v \in 1..Len(nodeNames) |->
        LET eis == SelectSeq(Ids(Len(ers)), LAMBDA ei :
                       /\ nameToIndex(nodeNames, ers[ei].to) = v
                       /\ nameToIndex(nodeNames, ers[ei].from) /= 0)
        IN  [k \in 1..Len(eis) |-> nameToIndex(nodeNames, ers[eis[k]].from)]]

\* outAdj[u].forEach(v => { indeg[v]--; if (indeg[v] === 0) queue.push(v); })
RECURSIVE LayerVisit(_, _, _)
LayerVisit(targets, queue, indeg) ==
    IF targets = <<>> THEN [queue |-> queue, indeg |-> indeg]
    ELSE LET v  == Head(targets)
             d  == indeg[v] - 1
             q2 == IF d = 0 THEN Append(queue, v) ELSE queue
         IN  LayerVisit(Tail(targets), q2, [indeg EXCEPT ![v] = d])

RECURSIVE LayerKahn(_, _, _, _)
LayerKahn(queue, indeg, topo, outAdj) ==
    IF queue = <<>> THEN topo
    ELSE LET u == Head(queue)
             r == LayerVisit(outAdj[u], Tail(queue), indeg)
         IN  LayerKahn(r.queue, r.indeg, Append(topo, u), outAdj)

\* layerIndex[v] = Math.max(layerIndex[v], layerIndex[u] + 1)
RECURSIVE LayerEdges(_, _, _)
LayerEdges(layerIndex, targets, u) ==
    IF targets = <<>> THEN layerIndex
    ELSE LayerEdges([layerIndex EXCEPT ![Head(targets)] =
                        Max2(layerIndex[Head(targets)], layerIndex[u] + 1)],
                    Tail(targets), u)

RECURSIVE LayerPass(_, _, _)
LayerPass(layerIndex, topo, outAdj) ==
    IF topo = <<>> THEN layerIndex
    ELSE LayerPass(LayerEdges(layerIndex, outAdj[Head(topo)], Head(topo)),
                   Tail(topo), outAdj)

\* layerIndexOf with the nodes taken in index order, not topological order
layerIndexInNodeOrder(n, outAdj, inAdj) ==
    LayerPass([i \in 1..n |-> 0], Ids(n), outAdj)

\* the layer of every node
layerIndexOf(n, outAdj, inAdj) ==
    LET indeg == [i \in 1..n |-> Len(inAdj[i])]
        topo  == LayerKahn(ZeroQueue(indeg), indeg, <<>>, outAdj)
    IN  LayerPass([i \in 1..n |-> 0], topo, outAdj)

\* layers[li]: the nodes of layer li in index order (layer li is layers[li + 1])
groupLayers(n, layerIndex) ==
    [li \in 1..(MaxOf(layerIndex) + 1) |->
        SelectSeq(Ids(n), LAMBDA i : layerIndex[i] = li - 1)]

\* orderMap.get(v) ?? 0: the position of v in the neighbour layer, from 0
orderMapGet(neighborLayer, v) ==
    IF \E k \in 1..Len(neighborLayer) : neighborLayer[k] = v
    THEN (CHOOSE k \in 1..Len(neighborLayer) : neighborLayer[k] = v) - 1
    ELSE 0

RECURSIVE SumOrder(_, _)
SumOrder(neighbors, neighborLayer) ==
    IF neighbors = <<>> THEN 0
    ELSE orderMapGet(neighborLayer, Head(neighbors))
         + SumOrder(Tail(neighbors), neighborLayer)

\* the sort key of one node: Infinity, or the quotient sum / neighbors.length
barycenterKey(nodeId, neighborLayer, neighborAdj) ==
    LET neighbors == neighborAdj[nodeId]
    IN  IF Len(neighbors) = 0
        THEN [nodeId |-> nodeId, inf |-> TRUE, sum |-> 0, len |-> 1]
        ELSE [nodeId |-> nodeId, inf |-> FALSE,
              sum |-> SumOrder(neighbors, neighborLayer), len |-> Len(neighbors)]

\* a.key - b.key < 0 (Infinity - Infinity is NaN, which sort takes as 0)
keyBefore(a, b) ==
    IF a.inf THEN FALSE
    ELSE IF b.inf THEN TRUE
    ELSE a.sum * b.len < b.sum * a.len

\* Array.prototype.sort is stable: an item goes after the items not after it
RECURSIVE InsertItem(_, _)
InsertItem(sorted, x) ==
    IF sorted = <<>> THEN <<x>>
    ELSE IF keyBefore(x, Head(sorted)) THEN <<x>> \o sorted
    ELSE <<Head(sorted)>> \o InsertItem(Tail(sorted), x)

RECURSIVE SortItems(_, _)
SortItems(items, sorted) ==
    IF items = <<>> THEN sorted
    ELSE SortItems(Tail(items), InsertItem(sorted, Head(items)))

orderByBarycenter(currentLayer, neighborLayer, neighborAdj) ==
    LET items  == [k \in 1..Len(currentLayer) |->
                      barycenterKey(currentLayer[k], neighborLayer, neighborAdj)]
        sorted == SortItems(items, <<>>)
    IN  [k \in 1..Len(sorted) |-> sorted[k].nodeId]

\* for (i = 1; i < layers.length; i++), layers[i] being layers[i + 1] here
RECURSIVE TopDown(_, _, _)
TopDown(layers, i, inAdj) ==
    IF i > Len(layers) THEN layers
    ELSE TopDown([layers EXCEPT ![i] = orderByBarycenter(layers[i], layers[i - 1], inAdj)],
                 i + 1, inAdj)

\* for (i = layers.length - 2; i >= 0; i--)
RECURSIVE BottomUp(_, _, _)
BottomUp(layers, i, outAdj) ==
    IF i < 1 THEN layers
    ELSE BottomUp([layers EXCEPT ![i] = orderByBarycenter(layers[i], layers[i + 1], outAdj)],
                  i - 1, outAdj)

\* the number of sweeps
Sweeps == 4

RECURSIVE sweepLayers(_, _, _, _)
sweepLayers(layers, sweep, inAdj, outAdj) ==
    IF sweep >= Sweeps THEN layers
    ELSE sweepLayers(BottomUp(TopDown(layers, 2, inAdj), Len(layers) - 1, outAdj),
                     sweep + 1, inAdj, outAdj)

\* edgeCountFrom.get(from): the number of edges that leave `from`
edgeCountFrom(ers, from) == Cardinality({ei \in 1..Len(ers) : ers[ei].from = from})

\* the key of offsetCache
offsetKey(er) == <<er.from, er.to, er.weight>>

\* the offset (used - (total - 1) / 2) * (24 / max(1, total - 1)), or 0, as the
\* quotient num / den
offsetValue(used, total) ==
    IF total > 1
    THEN [num |-> (2 * used - (total - 1)) * 12, den |-> Max2(1, total - 1)]
    ELSE [num |-> 0, den |-> 1]

\* edges.forEach(er => edgeOffset(er)): `cache` is offsetCache as a set of
\* <<key, offset>>, `seqFrom` is edgeSeqFrom as a set of <<from, used>>
RECURSIVE edgeOffsets(_, _, _, _, _)
edgeOffsets(ers, i, cache, seqFrom, out) ==
    IF i > Len(ers) THEN out
    ELSE LET er   == ers[i]
             key  == offsetKey(er)
             hit  == {c \in cache : c[1] = key}
             prev == {c \in seqFrom : c[1] = er.from}
             used == IF prev = {} THEN 0 ELSE (CHOOSE c \in prev : TRUE)[2]
             off  == offsetValue(used, edgeCountFrom(ers, er.from))
         IN  IF hit /= {}
             THEN edgeOffsets(ers, i + 1, cache, seqFrom,
                              Append(out, (CHOOSE c \in hit : TRUE)[2]))
             ELSE edgeOffsets(ers, i + 1, cache \cup {<<key, off>>},
                              (seqFrom \ prev) \cup {<<er.from, used + 1>>},
                              Append(out, off))

\* what drawGraph(results) lays out
drawGraph(res) ==
    LET n      == Len(res.nodeNames)
        outAdj == outAdjOf(res.nodeNames, res.edges)
        inAdj  == inAdjOf(res.nodeNames, res.edges)
        layerIndex == layerIndexOf(n, outAdj, inAdj)
    IN  [kind |-> "graph",
         layerIndex |-> layerIndex,
         layers |-> sweepLayers(groupLayers(n, layerIndex), 0, inAdj, outAdj),
         offsets |-> edgeOffsets(res.edges, 1, {}, {}, <<>>)]

---------------------------------------------------------------------------
(* The handlers *)

NoAlert == "none"

NoNodesMessage == "no nodes"

NoEdgesMessage == "no edges"

Init ==
    /\ nodes = <<>>
    /\ edges = <<>>
    /\ results = NoResults
    /\ svg = EmptySvg
    /\ alerted = NoAlert

\* node-form submit: addNode(input.value)
NodeFormSubmit(name) ==
    /\ nodes' = addNode(nodes, name)
    /\ alerted' = NoAlert
    /\ UNCHANGED <<edges, results, svg>>

\* edge-form submit: addEdge(from.value, to.value, w.value)
EdgeFormSubmit(from, to, weight) ==
    /\ Len(edges) < MaxEdges
    /\ LET g == addEdge([nodes |-> nodes, edges |-> edges], from, to, weight)
       IN  /\ nodes' = g.nodes
           /\ edges' = g.edges
    /\ alerted' = NoAlert
    /\ UNCHANGED <<results, svg>>

\* btn-clear click: clearAll()
ClearClick ==
    /\ nodes' = <<>>
    /\ edges' = <<>>
    /\ results' = NoResults
    /\ svg' = EmptySvg
    /\ alerted' = NoAlert

\* ComputeClick with a catch block that also drops the cached result
ComputeClickDropsCache ==
    LET r == computeCPM(nodes, edges)
    IN  IF Len(nodes) = 0
        THEN alerted' = NoNodesMessage /\ UNCHANGED <<nodes, edges, results, svg>>
        ELSE IF Len(edges) = 0
        THEN alerted' = NoEdgesMessage /\ UNCHANGED <<nodes, edges, results, svg>>
        ELSE IF r.kind = "error"
        THEN /\ alerted' = r.message
             /\ results' = NoResults
             /\ svg' = EmptySvg
             /\ UNCHANGED <<nodes, edges>>
        ELSE /\ results' = r
             /\ svg' = drawGraph(r)
             /\ alerted' = NoAlert
             /\ UNCHANGED <<nodes, edges>>

\* btn-compute click
ComputeClick ==
    LET r == computeCPM(nodes, edges)
    IN  IF Len(nodes) = 0
        THEN alerted' = NoNodesMessage /\ UNCHANGED <<nodes, edges, results, svg>>
        ELSE IF Len(edges) = 0
        THEN alerted' = NoEdgesMessage /\ UNCHANGED <<nodes, edges, results, svg>>
        ELSE IF r.kind = "error"
        THEN alerted' = r.message /\ UNCHANGED <<nodes, edges, results, svg>>
        ELSE /\ results' = r
             /\ svg' = drawGraph(r)
             /\ alerted' = NoAlert
             /\ UNCHANGED <<nodes, edges>>

Name(c) == JsStr(<<c>>)

SampleNames == <<"A", "B", "C", "D", "E", "F", "G">>

SampleEdges ==
    << <<"A", "B", 3>>, <<"A", "C", 2>>, <<"B", "D", 2>>, <<"C", "D", 4>>,
       <<"C", "E", 2>>, <<"D", "F", 3>>, <<"E", "F", 2>>, <<"F", "G", 3>> >>

RECURSIVE addNodes(_, _)
addNodes(ns, names) ==
    IF names = <<>> THEN ns
    ELSE addNodes(addNode(ns, Name(Head(names))), Tail(names))

RECURSIVE addEdges(_, _)
addEdges(g, list) ==
    IF list = <<>> THEN g
    ELSE addEdges(addEdge(g, Name(Head(list)[1]), Name(Head(list)[2]),
                          JsNum(Head(list)[3] * One)),
                  Tail(list))

\* btn-sample click: clearAll(), the seven names, the eight edges
SampleClick ==
    LET g == addEdges([nodes |-> addNodes(<<>>, SampleNames), edges |-> <<>>], SampleEdges)
    IN  /\ nodes' = g.nodes
        /\ edges' = g.edges
        /\ results' = NoResults
        /\ svg' = EmptySvg
        /\ alerted' = NoAlert

\* what the user may type into the name fields and the weight field
TypedNames ==
    {JsStr(<<>>), JsStr(<<"A">>), JsStr(<<" ", "A", " ">>), JsStr(<<"B">>), JsStr(<<"C">>)}

TypedWeights == {JsStr(<<"1">>), JsStr(<<"-", "1">>), JsStr(<<"x">>)}

Next ==
    \/ \E name \in TypedNames : NodeFormSubmit(name)
    \/ \E from \in TypedNames, to \in TypedNames, weight \in TypedWeights :
           EdgeFormSubmit(from, to, weight)
    \/ ClearClick
    \/ ComputeClick
    \/ SampleClick

Spec == Init /\ [][Next]_vars

---------------------------------------------------------------------------
(* The forms with everything a field or a caller can hold: two names, blank
   and padded names, null, and weights that are blank, signed, not numbers *)

FormNames ==
    {JsNull, JsStr(<<>>), JsStr(<<" ">>), JsStr(<<"A">>), JsStr(<<"A", " ">>),
     JsStr(<<" ", "B">>)}

FormWeights ==
    {JsNull, JsStr(<<>>), JsStr(<<" ">>), JsStr(<<"2">>), JsStr(<<" ", "1", "0">>),
     JsStr(<<"-", "1">>), JsStr(<<"+", "1">>), JsStr(<<"x">>), JsStr(<<"1", "x">>),
     JsStr(InfinityLiteral), JsNum(One), JsNum(-One)}

NextForms ==
    \/ \E name \in FormNames : NodeFormSubmit(name)
    \/ \E from \in FormNames, to \in FormNames, weight \in FormWeights :
           EdgeFormSubmit(from, to, weight)
    \/ ClearClick
    \/ ComputeClick
    \/ SampleClick

SpecForms == Init /\ [][NextForms]_vars

---------------------------------------------------------------------------
(* One computation on a graph the forms can build *)

CallNames == << <<"A">>, <<"B">>, <<"C">>, <<"D">> >>

\* the weights of the graphs of SpecCPM: zero, one quantum, and the least
\* whole number at which one quantum is half a unit in the last place
CpmWeights == {0, 1, 2 ^ MantissaBits}

CpmNodeCounts == {2, 3}

LayoutWeights == {One}

LayoutNodeCounts == {3, 4}

EdgeChoices(ns, ws) ==
    {[from |-> ns[i], to |-> ns[j], weight |-> w] :
        i \in 1..Len(ns), j \in 1..Len(ns), w \in ws} \ 
    {[from |-> ns[i], to |-> ns[i], weight |-> w] : i \in 1..Len(ns), w \in ws}

SeqsUpTo(S, k) == UNION {[1..n -> S] : n \in 0..k}

Edge(f, t, w) == [from |-> <<f>>, to |-> <<t>>, weight |-> w * One]

\* the diamond A->B(3), A->C(2), B->D(2), C->D(4)
Diamond ==
    [nodes |-> CallNames,
     edges |-> <<Edge("A", "B", 3), Edge("A", "C", 2), Edge("B", "D", 2), Edge("C", "D", 4)>>]

\* two disjoint chains of the same length
TwoChains ==
    [nodes |-> CallNames,
     edges |-> <<Edge("A", "B", 2), Edge("C", "D", 2)>>]

GraphIs(ns, es) ==
    /\ nodes = ns
    /\ edges = es
    /\ results = NoResults
    /\ svg = EmptySvg
    /\ alerted = NoAlert

InitCPM ==
    \/ \E k \in CpmNodeCounts :
         \E es \in SeqsUpTo(EdgeChoices(SubSeq(CallNames, 1, k), CpmWeights), MaxCall) :
             GraphIs(SubSeq(CallNames, 1, k), es)
    \/ \E g \in {Diamond, TwoChains} : GraphIs(g.nodes, g.edges)

NextCPM == ComputeClick

SpecCPM == InitCPM /\ [][NextCPM]_vars

InitLayout ==
    \E k \in LayoutNodeCounts :
        \E es \in SeqsUpTo(EdgeChoices(SubSeq(CallNames, 1, k), LayoutWeights), MaxCall) :
            GraphIs(SubSeq(CallNames, 1, k), es)

NextLayout == ComputeClick

SpecLayout == InitLayout /\ [][NextLayout]_vars

---------------------------------------------------------------------------
(* Graph notions the properties are stated with; none is used by the model
   of the code above *)

MaxSet(S) == CHOOSE x \in S : \A y \in S : y <= x

\* the names reachable from the names in S along the edges es
RECURSIVE Reach(_, _)
Reach(es, S) ==
    LET T == S \cup {es[i].to : i \in {j \in 1..Len(es) : es[j].from \in S}}
    IN  IF T = S THEN S ELSE Reach(es, T)

\* some edge lies on a directed cycle
HasCycle(es) == \E i \in 1..Len(es) : es[i].from \in Reach(es, {es[i].to})

\* the directed paths of the edges es, each a sequence of edge indices; a path
\* of an acyclic graph has fewer edges than the graph has nodes
RECURSIVE GrowPaths(_, _, _)
GrowPaths(es, paths, k) ==
    IF k = 0 THEN paths
    ELSE GrowPaths(es,
                   paths \cup UNION {{Append(p, ei) :
                                        ei \in {j \in 1..Len(es) : es[j].from = es[p[Len(p)]].to}} :
                                     p \in paths},
                   k - 1)

EdgePaths(es, n) == GrowPaths(es, {<<ei>> : ei \in 1..Len(es)}, n)

PathEnd(es, p) == es[p[Len(p)]].to

\* the weight of a path, summed edge by edge from its first edge as the
\* machine sums
RECURSIVE PathWeight(_, _)
PathWeight(es, p) ==
    IF p = <<>> THEN 0
    ELSE Add(PathWeight(es, SubSeq(p, 1, Len(p) - 1)), es[p[Len(p)]].weight)

HasResults == results.kind = "results"

HasGraph == svg.kind = "graph"

NodeIds(r) == 1..Len(r.nodeNames)

IdOf(r, name) == nameToIndex(r.nodeNames, name)

\* every weight is a whole number and every sum of weights is exact
ExactWeights(r) ==
    /\ \A i \in 1..Len(r.edges) : r.edges[i].weight % One = 0
    /\ PathWeight(r.edges, Ids(Len(r.edges))) < (2 ^ MantissaBits) * One

NoPredecessor(r, v) == \A i \in 1..Len(r.edges) : IdOf(r, r.edges[i].to) /= v

---------------------------------------------------------------------------
(* C1 *)

\* C1: when the graph has a directed cycle, computeCPM throws the cycle error
\* instead of returning a result, and the compute click that called it shows
\* that message and leaves state.results (and the drawing) as they were.
CycleIsRejected ==
    [][(ComputeClick /\ HasCycle(edges)) =>
          /\ computeCPM(nodes, edges) = CycleError
          /\ alerted' = CycleMessage
          /\ results' = results
          /\ svg' = svg]_vars

\* a compute click has failed on a cyclic graph while an earlier result was cached
CycleRejectedWithCache ==
    /\ HasCycle(edges)
    /\ alerted = CycleMessage
    /\ HasResults

---------------------------------------------------------------------------
(* C2 *)

\* C2: state.results is null or is the result of computeCPM on the current
\* state.nodes and state.edges.
CacheIsCurrent ==
    results = NoResults \/ results = computeCPM(nodes, edges)

---------------------------------------------------------------------------
(* C3 *)

SignedDigits(s) ==
    IF s /= <<>> /\ s[1] \in {"-", "+"} THEN AllDigits(Tail(s)) ELSE AllDigits(s)

\* the argument is a number, or text that spells one
NumericWeight(v) ==
    \/ v.t = "number"
    \/ v.t = "string" /\ SignedDigits(Trim(v.s))

NegativeWeight(v) == NumericWeight(v) /\ ToNumber(v).v < 0

EmptyName(v) == v.t /= "string" \/ v.s = <<>>

EdgesWellFormed ==
    \A i \in 1..Len(edges) :
        /\ edges[i].from /= edges[i].to
        /\ edges[i].weight >= 0
        /\ edges[i].from /= <<>> /\ Trim(edges[i].from) = edges[i].from
        /\ edges[i].to /= <<>> /\ Trim(edges[i].to) = edges[i].to
        /\ edges[i].from \in Range(nodes)
        /\ edges[i].to \in Range(nodes)

\* C3: every stored edge has from /= to, a weight >= 0, non-empty trimmed
\* endpoint names that are nodes; and a call with an empty name, a negative
\* or non-numeric weight, or from = to leaves nodes and edges unchanged.
InvalidInputIsDiscarded ==
    [][/\ EdgesWellFormed'
       /\ \A name \in FormNames :
            (EmptyName(name) /\ NodeFormSubmit(name)) => UNCHANGED <<nodes, edges>>
       /\ \A from \in FormNames, to \in FormNames, weight \in FormWeights :
            (/\ \/ EmptyName(from)
                \/ EmptyName(to)
                \/ ~NumericWeight(weight)
                \/ NegativeWeight(weight)
                \/ from = to
             /\ EdgeFormSubmit(from, to, weight))
            => UNCHANGED <<nodes, edges>>]_vars

---------------------------------------------------------------------------
(* C4 *)

\* C4: for an acyclic graph, E[v] is the greatest weight of a directed path
\* that ends at v (0 when no edge enters v), and duration is the greatest E,
\* which is the weight of the heaviest directed path of the graph.
EarliestIsLongestPath ==
    HasResults =>
        LET r     == results
            paths == EdgePaths(r.edges, Len(r.nodeNames))
        IN  /\ \A v \in NodeIds(r) :
                 r.E[v] = MaxSet({0} \cup {PathWeight(r.edges, p) :
                                     p \in {q \in paths : IdOf(r, PathEnd(r.edges, q)) = v}})
            /\ \A v \in NodeIds(r) : NoPredecessor(r, v) => r.E[v] = 0
            /\ r.duration = MaxSet({r.E[v] : v \in NodeIds(r)})
            /\ r.duration = MaxSet({0} \cup {PathWeight(r.edges, p) : p \in paths})

\* the diamond has been computed: E[D] = max(3 + 2, 2 + 4) = 6 = duration
DiamondComputed ==
    /\ HasResults
    /\ edges = Diamond.edges
    /\ results.E[4] = 6 * One
    /\ results.duration = 6 * One

---------------------------------------------------------------------------
(* C5 *)

IsStart(r, v) == NoPredecessor(r, v)

IsEnd(r, v) == r.E[v] = r.duration

CriticalBetween(r, u, v) ==
    {i \in 1..Len(r.edges) :
        /\ r.edges[i].critical
        /\ IdOf(r, r.edges[i].from) = u
        /\ IdOf(r, r.edges[i].to) = v}

\* the node sequences that run along critical edges only
RECURSIVE GrowRoutes(_, _, _)
GrowRoutes(r, routes, k) ==
    IF k = 0 THEN routes
    ELSE GrowRoutes(r,
                    routes \cup UNION {{Append(p, v) :
                                          v \in {w \in NodeIds(r) :
                                                   CriticalBetween(r, p[Len(p)], w) /= {}}} :
                                       p \in routes},
                    k - 1)

\* those that lead from a node no edge enters to a node whose E is duration
CriticalRoutes(r) ==
    {p \in GrowRoutes(r, {<<v>> : v \in {w \in NodeIds(r) : IsStart(r, w)}}, Len(r.nodeNames)) :
        IsEnd(r, p[Len(p)])}

NamesOf(r, p) == [k \in 1..Len(p) |-> r.nodeNames[p[k]]]

\* C5: criticalPaths holds every directed path that runs only along critical
\* edges from a node with zero in-degree to a node whose earliest time is the
\* project duration.
AllCriticalRoutesReported ==
    HasResults =>
        \A p \in CriticalRoutes(results) : NamesOf(results, p) \in Range(results.criticalPaths)

---------------------------------------------------------------------------
(* C6 *)

OutgoingOf(r, name) == SelectSeq(Ids(Len(r.edges)), LAMBDA i : r.edges[i].from = name)

OffsetLess(a, b) == a.num * b.den < b.num * a.den

OffsetIsMinus(a, b) == a.num * b.den = -(b.num * a.den)

RECURSIVE SumNum(_, _)
SumNum(offsets, eis) ==
    IF eis = <<>> THEN 0 ELSE offsets[Head(eis)].num + SumNum(offsets, Tail(eis))

\* C6: the offsets of the edges that leave one node sum to 0, are closed
\* under negation as a multiset, and strictly increase in insertion order.
OffsetsSymmetricAndOrdered ==
    HasGraph =>
        \A name \in Range(results.nodeNames) :
            LET eis == OutgoingOf(results, name)
                off == svg.offsets
            IN  /\ SumNum(off, eis) = 0
                /\ \A i \in 1..Len(eis) :
                     Cardinality({j \in 1..Len(eis) : off[eis[j]] = off[eis[i]]})
                       = Cardinality({j \in 1..Len(eis) : OffsetIsMinus(off[eis[j]], off[eis[i]])})
                /\ \A i \in 1..Len(eis), j \in 1..Len(eis) :
                     i < j => OffsetLess(off[eis[i]], off[eis[j]])

---------------------------------------------------------------------------
(* C7 *)

\* C7: the layer of a node is the number of edges of its longest incoming
\* path: 0 when no edge enters it, and greater than the layer of every
\* predecessor.
LayerIsLongestIncomingPath ==
    HasGraph =>
        LET r     == results
            paths == EdgePaths(r.edges, Len(r.nodeNames))
        IN  /\ \A v \in NodeIds(r) :
                 svg.layerIndex[v] = MaxSet({0} \cup {Len(p) :
                                       p \in {q \in paths : IdOf(r, PathEnd(r.edges, q)) = v}})
            /\ \A v \in NodeIds(r) : NoPredecessor(r, v) => svg.layerIndex[v] = 0
            /\ \A i \in 1..Len(r.edges) :
                 svg.layerIndex[IdOf(r, r.edges[i].to)] > svg.layerIndex[IdOf(r, r.edges[i].from)]

\* an edge skips a layer: its target also ends a longer path
EdgeSkipsLayer ==
    /\ HasGraph
    /\ \E i \in 1..Len(results.edges) :
         svg.layerIndex[IdOf(results, results.edges[i].to)]
           >= svg.layerIndex[IdOf(results, results.edges[i].from)] + 2

---------------------------------------------------------------------------
(* C8 *)

\* the key as the mean position of the neighbours that lie in the neighbour
\* layer, Infinity when there is none
adjacentKey(nodeId, neighborLayer, neighborAdj) ==
    LET neighbors == SelectSeq(neighborAdj[nodeId], LAMBDA v : v \in Range(neighborLayer))
    IN  IF Len(neighbors) = 0
        THEN [nodeId |-> nodeId, inf |-> TRUE, sum |-> 0, len |-> 1]
        ELSE [nodeId |-> nodeId, inf |-> FALSE,
              sum |-> SumOrder(neighbors, neighborLayer), len |-> Len(neighbors)]

orderByAdjacent(currentLayer, neighborLayer, neighborAdj) ==
    LET items  == [k \in 1..Len(currentLayer) |->
                      adjacentKey(currentLayer[k], neighborLayer, neighborAdj)]
        sorted == SortItems(items, <<>>)
    IN  [k \in 1..Len(sorted) |-> sorted[k].nodeId]

RECURSIVE AdjacentTopDown(_, _, _)
AdjacentTopDown(layers, i, inAdj) ==
    IF i > Len(layers) THEN layers
    ELSE AdjacentTopDown([layers EXCEPT ![i] = orderByAdjacent(layers[i], layers[i - 1], inAdj)],
                         i + 1, inAdj)

RECURSIVE AdjacentBottomUp(_, _, _)
AdjacentBottomUp(layers, i, outAdj) ==
    IF i < 1 THEN layers
    ELSE AdjacentBottomUp([layers EXCEPT ![i] = orderByAdjacent(layers[i], layers[i + 1], outAdj)],
                          i - 1, outAdj)

RECURSIVE AdjacentSweeps(_, _, _, _)
AdjacentSweeps(layers, sweep, inAdj, outAdj) ==
    IF sweep >= Sweeps THEN layers
    ELSE AdjacentSweeps(AdjacentBottomUp(AdjacentTopDown(layers, 2, inAdj),
                                         Len(layers) - 1, outAdj),
                        sweep + 1, inAdj, outAdj)

\* C8: every top-down step orders a layer by the mean position of each node's
\* predecessors in the preceding layer, every bottom-up step by that of its
\* successors in the following layer; a node with no such neighbour has key
\* +Infinity and neighbours in other layers do not count.  The drawn order is
\* then the one these keys give.
SweepsUseAdjacentLayerOnly ==
    HasGraph =>
        LET r      == results
            n      == Len(r.nodeNames)
            outAdj == outAdjOf(r.nodeNames, r.edges)
            inAdj  == inAdjOf(r.nodeNames, r.edges)
        IN  svg.layers = AdjacentSweeps(groupLayers(n, svg.layerIndex), 0, inAdj, outAdj)

---------------------------------------------------------------------------
(* C9 *)

TimesInOrder(r) ==
    /\ \A v \in NodeIds(r) : 0 <= r.E[v] /\ r.E[v] <= r.L[v] /\ r.L[v] <= r.duration
    /\ \A i \in 1..Len(r.edges) :
         LET e == r.edges[i]
         IN  /\ e.slack >= 0
             /\ e.ES <= e.LS
             /\ e.EF <= e.LF
             /\ e.LF <= r.duration

\* C9 as claimed: for every acyclic graph with non-negative weights,
\* 0 <= E[v] <= L[v] <= duration for every node, and every edge has
\* slack >= 0, ES <= LS and EF <= LF <= duration.
TimesAlwaysInOrder == HasResults => TimesInOrder(results)

\* C9 as amended: these hold when the weights are whole numbers whose sums
\* are exact; for any weights 0 <= E[v] <= duration, L[v] <= duration and
\* EF <= duration, LF <= duration.
TimesInOrderWhenExact ==
    HasResults =>
        LET r == results
        IN  /\ ExactWeights(r) => TimesInOrder(r)
            /\ \A v \in NodeIds(r) :
                 0 <= r.E[v] /\ r.E[v] <= r.duration /\ r.L[v] <= r.duration
            /\ \A i \in 1..Len(r.edges) :
                 r.edges[i].EF <= r.duration /\ r.edges[i].LF <= r.duration

\* whole weights with an edge that has room and an edge that has none
SlackAndNoSlack ==
    /\ HasResults
    /\ ExactWeights(results)
    /\ \E i \in 1..Len(results.edges) : results.edges[i].slack > 0
    /\ \E i \in 1..Len(results.edges) :
         results.edges[i].slack = 0 /\ results.edges[i].weight > 0

---------------------------------------------------------------------------
(* C10 *)

\* the sums of the weights of critical edges taken one per step of the path
RECURSIVE StepSums(_, _, _)
StepSums(r, p, k) ==
    IF k = 0 THEN {0}
    ELSE {s + r.edges[i].weight :
            s \in StepSums(r, p, k - 1),
            i \in CriticalBetween(r, IdOf(r, p[k]), IdOf(r, p[k + 1]))}

PathIsCritical(r, p) ==
    /\ Len(p) >= 1
    /\ IsStart(r, IdOf(r, p[1]))
    /\ IsEnd(r, IdOf(r, p[Len(p)]))
    /\ \A k \in 1..(Len(p) - 1) : CriticalBetween(r, IdOf(r, p[k]), IdOf(r, p[k + 1])) /= {}

\* C10 as claimed: every path of criticalPaths starts at a node with zero
\* in-degree, ends at a node whose E is duration, has a critical edge at every
\* step, and the weights of those edges sum to exactly duration.
CriticalPathsSumToDuration ==
    HasResults =>
        \A k \in 1..Len(results.criticalPaths) :
            LET p == results.criticalPaths[k]
            IN  /\ PathIsCritical(results, p)
                /\ results.duration \in StepSums(results, p, Len(p) - 1)

\* C10 as amended: the sum is exactly duration when the weights are whole
\* numbers whose sums are exact.
CriticalPathsSumWhenExact ==
    HasResults =>
        \A k \in 1..Len(results.criticalPaths) :
            LET p == results.criticalPaths[k]
            IN  /\ PathIsCritical(results, p)
                /\ ExactWeights(results) =>
                     StepSums(results, p, Len(p) - 1) = {results.duration}

\* whole weights, a critical path of two steps beside a shorter route
TwoStepCriticalPath ==
    /\ HasResults
    /\ ExactWeights(results)
    /\ results.duration > 0
    /\ \E k \in 1..Len(results.criticalPaths) : Len(results.criticalPaths[k]) = 3
    /\ \E i \in 1..Len(results.edges) : ~results.edges[i].critical

=============================================================================
